---- MODULE Spec2Model ----
(***************************************************************************)
(* The forwarding pipeline of the Telegram auto-forwarder (src/main.py)    *)
(* and its rate limiter (src/utils.py): the bounded message_queue, the     *)
(* ingestion handler, the pool of queue workers, retry_on_failure, the     *)
(* resource monitor with its graceful restart, and RateLimiter.            *)
(*                                                                         *)
(* Time is the integer number of seconds read by time.time().  One step    *)
(* of the model is the code a coroutine runs between two awaits: asyncio   *)
(* runs every coroutine on one thread, so that code is atomic.             *)
(***************************************************************************)
EXTENDS Integers, Sequences, FiniteSets, Bags, TLC

(***************************************************************************)
(* Bounds.  The limits of the program are scaled down so that the states   *)
(* in which they bind are reached: each names the program's value.         *)
(***************************************************************************)
\* asyncio.Queue(maxsize=500) and the test qsize() < 500 (src/main.py:58, 482)
QueueMax == 2
\* RateLimiter.global_limit = 100 (src/utils.py:260)
global_limit == 2
\* RateLimiter.chat_limit = 30 (src/utils.py:261)
chat_limit == 1
\* RateLimiter.window_size = 60 seconds (src/utils.py:262)
window_size == 2
\* the drain wait of _graceful_restart: wait_time < 30 (src/main.py:645)
DrainTimeout == 2
\* the last second the clock reaches
MaxTime == 3
\* the largest wait a FloodWait error carries (e.value)
MaxFloodWait == 2
\* the number of inbound messages the transport delivers
MaxMsgs == 2
\* the same where every send may fail and be retried
RetryMsgs == 1
\* the same where one destination is throttled for good
StarveMsgs == 6
\* The messages that arrive for the failing destination.
FailMsgs == 6
\* The inbound messages of the flood-wait traffic.
FloodMsgs == 2
\* The inbound messages of the ordering traffic.
OrderMsgs == 3
\* The inbound messages of the restart traffic.
DrainMsgs == 5
\* The largest id the sequence of the tasks table hands out.
MaxId == 4
\* The largest error_count a row of the tasks table reaches.
MaxErrorCount == 1
\* The largest error count _get_adaptive_limit is asked about.
MaxErrors == 11
\* The largest base limit _get_adaptive_limit is asked with.
MaxBase == 12
\* The CPU readings the resource monitor keeps (a deque of 30 in the code).
CpuSamples == 2

(***************************************************************************)
(* Program constants.                                                      *)
(***************************************************************************)
\* for i in range(4): 4 concurrent workers (src/main.py:690)
NumWorkers == 4
\* @retry_on_failure(max_retries=3, delay=2) on _forward_message (src/main.py:537)
max_retries == 3
\* success rates are kept in thousandths: 1.0 is 1000
RateUnit == 1000

\* Destinations: the pipeline's rules use 1 and 2; the global-limit scenario
\* needs one more destination than the global limit.
Dests == 1..(global_limit + 1)
\* The forwarding rules of the task store: (id, source_id, destination_id).
\* Rules 1 and 2 forward source 1 to destinations 1 and 2; rule 3 forwards
\* source 2 to destination 1.
Rules == {1, 2, 3}
TaskSource(r) == IF r = 3 THEN 2 ELSE 1
TaskDest(r) == IF r = 2 THEN 2 ELSE 1

\* flood_wait_until has no entry for the chat
NoWait == -1
\* success_rates has no entry for the chat
NoRate == -1

VARIABLES
    now,                \* time.time()
    \* RateLimiter (src/utils.py:259-277)
    global_counter,     \* deque of send times
    chat_counters,      \* chat -> deque of send times (no key = empty)
    flood_wait_until,   \* chat -> deadline, or NoWait
    permanent_bans,     \* set of chats
    success_rates,      \* chat -> thousandths, or NoRate
    error_counts,       \* chat -> count (no key = 0)
    call,               \* the RateLimiter call made directly at this time, and its answer
    last_flood,         \* chat -> the deadline the last set_flood_wait installed
    scen,               \* the progress of the global-limit scenario
    \* TelegramForwarder (src/main.py:52-69)
    message_queue,      \* asyncio.Queue(maxsize=500): sequence of delivery items
    is_running,         \* the running flag
    workers,            \* the pool: the bag of the workers' positions
    ing,                \* the ingestion handler's position
    arrived,            \* the number of inbound messages delivered so far
    tasks,              \* the task store: rule id -> row
    stats,              \* messages_forwarded and errors
    mon,                \* the resource monitor's position and last sample
    terminated,         \* the process has ended
    delivered,          \* the bag of the items the transport has accepted
    failed,             \* the bag of the items a worker gave up with an error
    db_pool,            \* the store's connection pool: open, interrupted, closed
    cpu_history,        \* ResourceMonitor.cpu_history: the CPU readings kept
    \* the tasks table as the administrative operations see it
    table,              \* the set of the rows (src/database.py:80-94)
    next_id,            \* the next value of the id sequence (SERIAL)
    active_tasks,       \* TelegramUserbot.active_tasks: id -> cached rule
    hm                  \* handle_new_message: its loop over active_tasks

limiter == <<global_counter, chat_counters, flood_wait_until, permanent_bans,
             success_rates, error_counts>>
direct == <<call, last_flood, scen>>
registry == <<table, next_id, active_tasks>>
pipeline == <<message_queue, is_running, workers, ing, arrived, tasks, stats,
              mon, terminated, delivered, failed, db_pool, cpu_history>>
vars == <<now, global_counter, chat_counters, flood_wait_until, permanent_bans,
          success_rates, error_counts, call, last_flood, scen,
          message_queue, is_running, workers, ing, arrived, tasks, stats,
          mon, terminated, delivered, failed, db_pool, cpu_history, table, next_id,
          active_tasks, hm>>

(***************************************************************************)
(* RateLimiter                                                             *)
(***************************************************************************)
RECURSIVE DropOld(_, _)
\* while counter and counter[0] < cutoff_time: counter.popleft()
DropOld(counter, cutoff_time) ==
    IF counter # <<>> /\ Head(counter) < cutoff_time
    THEN DropOld(Tail(counter), cutoff_time)
    ELSE counter

\* cutoff_time = current_time - self.window_size
Cutoff(current_time) == current_time - window_size

Max2(a, b) == IF a >= b THEN a ELSE b

\* _get_adaptive_limit with the two reductions exchanged
AdaptiveLimitSwapped(base_limit, success_rate, error_count) ==
    IF success_rate < 500 \/ error_count > 10
    THEN Max2(10, (base_limit * 6) \div 10)
    ELSE IF success_rate < 800 \/ error_count > 5
    THEN Max2(5, (base_limit * 3) \div 10)
    ELSE base_limit

\* _get_adaptive_limit on explicit arguments: the base limit, the success
\* rate in thousandths and the error count.  int(base * 0.3) and
\* int(base * 0.6) are the floors of 3 base / 10 and 6 base / 10.
AdaptiveLimit(base_limit, success_rate, error_count) ==
    IF success_rate < 500 \/ error_count > 10
    THEN Max2(5, (base_limit * 3) \div 10)
    ELSE IF success_rate < 800 \/ error_count > 5
    THEN Max2(10, (base_limit * 6) \div 10)
    ELSE base_limit

\* self.success_rates.get(chat_id, 1.0)
RateOf(chat_id) ==
    IF success_rates[chat_id] = NoRate THEN RateUnit ELSE success_rates[chat_id]

_get_adaptive_limit(chat_id) ==
    AdaptiveLimit(chat_limit, RateOf(chat_id), error_counts[chat_id])

\* InFloodWait with the deadline itself still inside the wait
InFloodWaitInclusive(chat_id) ==
    flood_wait_until[chat_id] # NoWait /\ now <= flood_wait_until[chat_id]

\* The flood-wait gate of can_send: current_time < flood_wait_until[chat_id]
InFloodWait(chat_id) ==
    flood_wait_until[chat_id] # NoWait /\ now < flood_wait_until[chat_id]

\* Gate with the global test off by one: len(global_counter) > global_limit
GateOffByOne(chat_id) ==
    IF chat_id \in permanent_bans THEN "ban"
    ELSE IF InFloodWait(chat_id) THEN "flood"
    ELSE IF Len(DropOld(global_counter, Cutoff(now))) > global_limit THEN "global"
    ELSE IF Len(DropOld(chat_counters[chat_id], Cutoff(now)))
              >= _get_adaptive_limit(chat_id) THEN "chat"
    ELSE "allow"

\* The gate of can_send that decides the call: "ban", "flood", "global",
\* "chat", or "allow" when every gate is passed.
Gate(chat_id) ==
    IF chat_id \in permanent_bans THEN "ban"
    ELSE IF InFloodWait(chat_id) THEN "flood"
    ELSE IF Len(DropOld(global_counter, Cutoff(now))) >= global_limit THEN "global"
    ELSE IF Len(DropOld(chat_counters[chat_id], Cutoff(now)))
              >= _get_adaptive_limit(chat_id) THEN "chat"
    ELSE "allow"

\* The state can_send leaves behind: an expired flood wait is deleted and
\* the counters are cleaned, unless the ban or the flood gate returned first.
can_send_effects(chat_id) ==
    IF Gate(chat_id) \in {"ban", "flood"}
    THEN UNCHANGED <<flood_wait_until, global_counter, chat_counters>>
    ELSE /\ flood_wait_until' = [flood_wait_until EXCEPT ![chat_id] = NoWait]
         /\ global_counter' = DropOld(global_counter, Cutoff(now))
         /\ chat_counters' =
                [c \in Dests |-> DropOld(chat_counters[c], Cutoff(now))]

\* (rate * 0.9) + (0.1 if success else 0.0), or 1.0 / 0.0 for a new chat
NextRate(rate, success) ==
    IF rate = NoRate
    THEN (IF success THEN RateUnit ELSE 0)
    ELSE (rate * 9) \div 10 + (IF success THEN RateUnit \div 10 ELSE 0)

record_message(chat_id, success) ==
    /\ global_counter' = Append(global_counter, now)
    /\ chat_counters' = [chat_counters EXCEPT ![chat_id] = Append(@, now)]
    /\ success_rates' =
           [success_rates EXCEPT ![chat_id] = NextRate(@, success)]
    /\ error_counts' =
           [error_counts EXCEPT ![chat_id] = IF success THEN @ ELSE @ + 1]

\* self.flood_wait_until[chat_id] = time.time() + wait_time
set_flood_wait(chat_id, wait_time) ==
    flood_wait_until' = [flood_wait_until EXCEPT ![chat_id] = now + wait_time]

(***************************************************************************)
(* The initial state: __init__ of RateLimiter.                             *)
(***************************************************************************)
\* call is the call made at the present time: the clock's step forgets it.
NoCall == [op |-> "none", chat |-> 0, gate |-> "none"]
\* The scenario has asked can_send for the chats of asked, got the answers
\* of gates, and recorded the first `recorded` of them; it began at start.
NoScen == [asked |-> <<>>, gates |-> <<>>, recorded |-> 0, start |-> 0]

\* last_error = NULL (src/database.py:178)
NoError == "NULL"
\* A delivery item: the message and the rule it matched (src/main.py:483-487).
NoItem == [msg |-> 0, task |-> 0]
\* A worker's position: where it is in _process_message_queue, the item it
\* holds, the attempt number of retry_on_failure's loop, and the time its
\* sleep(e.value) ends when it sleeps after a FloodWait.
W(pc, item, attempt) ==
    [pc |-> pc, item |-> item, attempt |-> attempt, wake |-> NoWait]
Idle == W("get", NoItem, 0)
Done == W("done", NoItem, 0)
Cancelled == W("cancelled", NoItem, 0)
Copies(x, n) == IF n > 0 THEN (x :> n) ELSE EmptyBag
IngIdle == [pc |-> "idle", msg |-> 0, chat |-> 0, todo |-> <<>>]

\* One row of the tasks table (the columns the operations below touch).
NewRow(id, source_id, destination_id) ==
    [id |-> id, source_id |-> source_id, destination_id |-> destination_id,
     is_active |-> TRUE, error_count |-> 0, last_error |-> NoError]
\* The rows of the rules the pipeline forwards for.
RuleRows == {NewRow(r, TaskSource(r), TaskDest(r)) : r \in Rules}
\* What load_tasks keeps of a row.
CacheEntry(row) ==
    [source_chat |-> row.source_id, dest_chat |-> row.destination_id,
     status |-> IF row.is_active THEN "active" ELSE "inactive"]
RowWithId(rows, id) == CHOOSE row \in rows : row.id = id
CacheOf(rows) ==
    [id \in {row.id : row \in rows} |-> CacheEntry(RowWithId(rows, id))]

\* handle_new_message is not running.  While it runs: the source of the
\* message, the rules active for it in the cache when it started, the
\* size and the keys of the dict when its iterator was made, the keys
\* the iterator has yielded, the rules forward_message was called for,
\* the one it is awaited for, whether self.active_tasks has been bound to
\* another dict since (and then the dict the loop still iterates), and
\* whether the loop ended with an exception.
NoHandle ==
    [pc |-> "idle", source |-> 0, start |-> {}, size |-> 0, keys |-> {},
     visited |-> {}, called |-> <<>>, current |-> 0, detached |-> FALSE,
     old |-> CacheOf({}), raised |-> FALSE]

Init ==
    /\ now = 0
    /\ global_counter = <<>>
    /\ chat_counters = [c \in Dests |-> <<>>]
    /\ flood_wait_until = [c \in Dests |-> NoWait]
    /\ permanent_bans = {}
    /\ success_rates = [c \in Dests |-> NoRate]
    /\ error_counts = [c \in Dests |-> 0]
    /\ call = NoCall
    /\ last_flood = [c \in Dests |-> NoWait]
    /\ scen = NoScen
    /\ message_queue = <<>>
    /\ is_running = TRUE
    /\ workers = Copies(Idle, NumWorkers)
    /\ ing = IngIdle
    /\ arrived = 0
    /\ tasks = [r \in Rules |->
                   [is_active |-> TRUE, messages_forwarded |-> 0,
                    last_error |-> NoError]]
    /\ stats = [messages_forwarded |-> 0, errors |-> 0]
    /\ mon = [pc |-> "sample", memory |-> 0, wait_time |-> 0,
              backlog |-> <<>>]
    /\ terminated = FALSE
    /\ delivered = EmptyBag
    /\ failed = EmptyBag
    /\ db_pool = "open"
    /\ cpu_history = <<>>
    /\ table = RuleRows
    /\ next_id = Cardinality(Rules) + 1
    /\ active_tasks = CacheOf(RuleRows)
    /\ hm = NoHandle

\* The clock advances.
Tick ==
    /\ ~terminated
    /\ now < MaxTime
    /\ now' = now + 1
    /\ call' = NoCall
    /\ UNCHANGED <<limiter, last_flood, scen, pipeline, registry, hm>>

(***************************************************************************)
(* The rate limiter called directly, one call per step.                    *)
(***************************************************************************)
RLDests == {1, 2}

RLCanSend(chat_id) ==
    /\ can_send_effects(chat_id)
    /\ call' = [op |-> "can_send", chat |-> chat_id, gate |-> Gate(chat_id)]
    /\ UNCHANGED <<now, permanent_bans, success_rates, error_counts,
                   last_flood, scen, pipeline, registry, hm>>

RLRecord(chat_id) ==
    /\ Len(global_counter) <= global_limit
    /\ record_message(chat_id, TRUE)
    /\ call' = [op |-> "record", chat |-> chat_id, gate |-> "none"]
    /\ UNCHANGED <<now, flood_wait_until, permanent_bans, last_flood, scen,
                   pipeline, registry, hm>>

RLSetFloodWait(chat_id, wait_time) ==
    /\ set_flood_wait(chat_id, wait_time)
    /\ last_flood' = [last_flood EXCEPT ![chat_id] = now + wait_time]
    /\ call' = [op |-> "set_flood_wait", chat |-> chat_id, gate |-> "none"]
    /\ UNCHANGED <<now, global_counter, chat_counters, permanent_bans,
                   success_rates, error_counts, scen, pipeline, registry, hm>>

NextRL ==
    \/ Tick
    \/ \E c \in RLDests : RLCanSend(c)
    \/ \E c \in RLDests : RLRecord(c)
    \/ \E c \in RLDests, w \in 1..MaxFloodWait : RLSetFloodWait(c, w)

SpecRL == Init /\ [][NextRL]_vars

(***************************************************************************)
(* The global-limit scenario: from the empty limiter, can_send(d) and then *)
(* record_message(d) for pairwise distinct chats d, all within one window. *)
(***************************************************************************)
InSeq(x, seq) == \E i \in 1..Len(seq) : seq[i] = x

ScenCanSend(chat_id) ==
    /\ ~InSeq(chat_id, scen.asked)
    /\ scen.recorded = Len(scen.asked)
    /\ Len(scen.asked) <= global_limit
    /\ can_send_effects(chat_id)
    /\ scen' = [asked |-> Append(scen.asked, chat_id),
                gates |-> Append(scen.gates, Gate(chat_id)),
                recorded |-> scen.recorded,
                start |-> IF scen.asked = <<>> THEN now ELSE scen.start]
    /\ UNCHANGED <<now, permanent_bans, success_rates, error_counts,
                   call, last_flood, pipeline, registry, hm>>

ScenRecord ==
    /\ scen.recorded < Len(scen.asked)
    /\ record_message(scen.asked[Len(scen.asked)], TRUE)
    /\ scen' = [scen EXCEPT !.recorded = @ + 1]
    /\ UNCHANGED <<now, flood_wait_until, permanent_bans, call, last_flood,
                   pipeline, registry, hm>>

\* The clock advances, the scenario staying within one window of its start.
ScenTick ==
    /\ scen.asked # <<>> => now + 1 - scen.start <= window_size
    /\ Tick

NextGlobal ==
    \/ ScenTick
    \/ \E c \in Dests : ScenCanSend(c)
    \/ ScenRecord

SpecGlobal == Init /\ [][NextGlobal]_vars

(***************************************************************************)
(* Ingestion: _handle_incoming_message (src/main.py:470-498).  The handler *)
(* tests the running flag, awaits db.get_tasks_by_source, and then puts    *)
(* one item per rule; it awaits again only to notify that the queue is     *)
(* full.                                                                   *)
(***************************************************************************)
\* HasRoom with the test off by one: qsize() <= 500
HasRoomOffByOne(q) == Len(q) <= QueueMax

\* self.message_queue.qsize() < 500
HasRoom(q) == Len(q) < QueueMax

RECURSIVE SeqOfSet(_)
\* The rows of a query as a list, in id order.
SeqOfSet(S) ==
    IF S = {} THEN <<>>
    ELSE LET m == CHOOSE x \in S : \A y \in S : x <= y
         IN  <<m>> \o SeqOfSet(S \ {m})

\* SELECT ... WHERE source_id = $1 AND is_active = TRUE
get_tasks_by_source(source_id) ==
    SeqOfSet({r \in Rules : TaskSource(r) = source_id /\ tasks[r].is_active})

RECURSIVE PutAllEvict(_, _, _)
\* PutAll making room on a full queue by discarding its oldest item.
PutAllEvict(q, todo, msg) ==
    IF todo = <<>> THEN [q |-> q, todo |-> <<>>, dropped |-> FALSE]
    ELSE PutAllEvict(Append(IF HasRoom(q) THEN q ELSE Tail(q),
                            [msg |-> msg, task |-> Head(todo)]),
                     Tail(todo), msg)

RECURSIVE PutAll(_, _, _)
\* The for loop over the fetched rules up to its next await: each rule's
\* item is put while the queue has room; at the first rule that finds the
\* queue full the item is dropped and the handler awaits the notification.
PutAll(q, todo, msg) ==
    IF todo = <<>> THEN [q |-> q, todo |-> <<>>, dropped |-> FALSE]
    ELSE IF HasRoom(q)
    THEN PutAll(Append(q, [msg |-> msg, task |-> Head(todo)]), Tail(todo), msg)
    ELSE [q |-> q, todo |-> Tail(todo), dropped |-> TRUE]

\* A message arrives: "if not self.is_running: return", else the handler
\* awaits the task store.
IngestStart(source_id, limit) ==
    /\ ~terminated
    /\ ing.pc = "idle"
    /\ arrived < limit
    /\ arrived' = arrived + 1
    /\ ing' = IF is_running
              THEN [pc |-> "fetch", msg |-> arrived + 1, chat |-> source_id,
                    todo |-> <<>>]
              ELSE IngIdle
    /\ UNCHANGED <<now, limiter, direct, message_queue, is_running, workers,
                   tasks, stats, mon, terminated, delivered, failed, db_pool, registry,
                   cpu_history, hm>>

\* The store answers with the active rules of the source, or the query
\* fails and get_tasks_by_source returns [] (src/database.py:221-223).
IngestFetch(db_ok) ==
    /\ ~terminated
    /\ ing.pc = "fetch"
    /\ ing' = [ing EXCEPT !.pc = "loop",
                          !.todo = IF db_ok THEN get_tasks_by_source(ing.chat)
                                   ELSE <<>>]
    /\ UNCHANGED <<now, limiter, direct, message_queue, is_running, workers,
                   arrived, tasks, stats, mon, terminated, delivered, failed, db_pool, registry,
                   cpu_history, hm>>

\* The handler resumes (after the fetch or after a notification) and runs
\* the loop to its next await or to its end.
IngestLoop ==
    /\ ~terminated
    /\ ing.pc \in {"loop", "notify"}
    /\ LET r == PutAll(message_queue, ing.todo, ing.msg)
       IN  /\ message_queue' = r.q
           /\ ing' = IF r.dropped
                     THEN [ing EXCEPT !.pc = "notify", !.todo = r.todo]
                     ELSE IngIdle
    /\ UNCHANGED <<now, limiter, direct, is_running, workers, arrived, tasks,
                   stats, mon, terminated, delivered, failed, db_pool, registry,
                   cpu_history, hm>>

(***************************************************************************)
(* The workers: _process_message_queue (src/main.py:500-535) around        *)
(* _forward_message (src/main.py:537-606) under retry_on_failure           *)
(* (src/utils.py:30-54).  The workers run the same code and carry no       *)
(* identity, so the pool is the bag of their positions.                    *)
(***************************************************************************)
Move(s, t) == workers' = (workers (-) SetToBag({s})) (+) SetToBag({t})

\* A loop whose test is not made again.
LoopTopForever == Idle

\* "while self.is_running": where a worker goes when it is back at the top.
LoopTop == IF is_running THEN Idle ELSE Done

\* asyncio.Queue.put waits while the queue is full.
CanPut(q) == Len(q) < QueueMax

\* LastAttempt with one more round of the loop
LastAttemptLate(attempt) == attempt = max_retries + 1

\* for attempt in range(max_retries + 1): "if attempt == max_retries: raise"
LastAttempt(attempt) == attempt = max_retries

\* queue_item = await asyncio.wait_for(self.message_queue.get(), timeout=1.0)
WorkerGet(s) ==
    /\ ~terminated
    /\ s.pc = "get"
    /\ message_queue # <<>>
    /\ message_queue' = Tail(message_queue)
    /\ Move(s, W("got", Head(message_queue), 0))
    /\ UNCHANGED <<now, limiter, direct, is_running, ing, arrived, tasks, stats,
                   mon, terminated, delivered, failed, db_pool, registry,
                   cpu_history, hm>>

\* asyncio.TimeoutError on an empty queue: continue, and the loop ends
\* when the running flag is cleared.
WorkerTimeout(s) ==
    /\ ~terminated
    /\ s.pc = "get"
    /\ message_queue = <<>>
    /\ ~is_running
    /\ Move(s, Done)
    /\ UNCHANGED <<now, limiter, direct, message_queue, is_running, ing, arrived,
                   tasks, stats, mon, terminated, delivered, failed, db_pool, registry,
                   cpu_history, hm>>

\* can_send(task['destination_id']): on allow the send is invoked at once,
\* on deny the worker sleeps before it puts the item back.
WorkerCheck(s) ==
    /\ ~terminated
    /\ s.pc = "got"
    /\ can_send_effects(TaskDest(s.item.task))
    /\ Move(s, IF Gate(TaskDest(s.item.task)) = "allow"
               THEN W("send", s.item, 0)
               ELSE W("requeue", s.item, 0))
    /\ UNCHANGED <<now, permanent_bans, success_rates, error_counts, direct,
                   message_queue, is_running, ing, arrived, tasks, stats, mon,
                   terminated, delivered, failed, db_pool, registry,
                   cpu_history, hm>>

\* A denied item that is not put back: sleep(1); continue
WorkerRequeueDrops(s) ==
    /\ ~terminated
    /\ s.pc = "requeue"
    /\ CanPut(message_queue)
    /\ Move(s, LoopTop)
    /\ UNCHANGED <<now, limiter, direct, message_queue, is_running, ing, arrived,
                   tasks, stats, mon, terminated, delivered, failed, db_pool,
                   registry,
                   cpu_history, hm>>

\* A requeue without the loop's continue: the item goes back to the queue
\* and the worker goes on to send it.
WorkerRequeueAndSend(s) ==
    /\ ~terminated
    /\ s.pc = "requeue"
    /\ CanPut(message_queue)
    /\ message_queue' = Append(message_queue, s.item)
    /\ Move(s, W("send", s.item, 0))
    /\ UNCHANGED <<now, limiter, direct, is_running, ing, arrived, tasks, stats,
                   mon, terminated, delivered, failed, db_pool, registry,
                   cpu_history, hm>>

\* await asyncio.sleep(1); await self.message_queue.put(queue_item); continue
WorkerRequeue(s) ==
    /\ ~terminated
    /\ s.pc = "requeue"
    /\ CanPut(message_queue)
    /\ message_queue' = Append(message_queue, s.item)
    /\ Move(s, LoopTop)
    /\ UNCHANGED <<now, limiter, direct, is_running, ing, arrived, tasks, stats,
                   mon, terminated, delivered, failed, db_pool, registry,
                   cpu_history, hm>>

\* The send returns: _forward_message returns True, the worker counts the
\* message and records it in the rate limiter.
WorkerSendOk(s) ==
    /\ ~terminated
    /\ s.pc = "send"
    /\ stats' = [stats EXCEPT !.messages_forwarded = @ + 1]
    /\ record_message(TaskDest(s.item.task), TRUE)
    /\ delivered' = delivered (+) SetToBag({s.item})
    /\ Move(s, LoopTop)
    /\ UNCHANGED <<now, flood_wait_until, permanent_bans, direct, message_queue,
                   is_running, ing, arrived, tasks, mon, terminated, failed, db_pool, registry,
                   cpu_history, hm>>

\* The send raises FloodWait: set_flood_wait, then sleep(e.value).
WorkerSendFlood(s, wait_time) ==
    /\ ~terminated
    /\ s.pc = "send"
    /\ now + wait_time <= MaxTime
    /\ set_flood_wait(TaskDest(s.item.task), wait_time)
    /\ Move(s, [W("floodsleep", s.item, s.attempt) EXCEPT
                    !.wake = now + wait_time])
    /\ UNCHANGED <<now, global_counter, chat_counters, permanent_bans,
                   success_rates, error_counts, direct, message_queue,
                   is_running, ing, arrived, tasks, stats, mon, terminated,
                   delivered, failed, db_pool, registry,
                   cpu_history, hm>>

\* sleep(e.value) is over: raise, into retry_on_failure.
WorkerFloodWake(s) ==
    /\ ~terminated
    /\ s.pc = "floodsleep"
    /\ now >= s.wake
    /\ Move(s, W("backoff", s.item, s.attempt))
    /\ UNCHANGED <<now, limiter, direct, message_queue, is_running, ing, arrived,
                   tasks, stats, mon, terminated, delivered, failed, db_pool,
                   registry,
                   cpu_history, hm>>

\* The send raises another exception: log, raise.
WorkerSendError(s) ==
    /\ ~terminated
    /\ s.pc = "send"
    /\ Move(s, W("backoff", s.item, s.attempt))
    /\ UNCHANGED <<now, limiter, direct, message_queue, is_running, ing, arrived,
                   tasks, stats, mon, terminated, delivered, failed, db_pool, registry,
                   cpu_history, hm>>

\* A worker that counts the error of a failed item and puts the item back.
WorkerRetryRequeues(s) ==
    /\ ~terminated
    /\ s.pc = "backoff"
    /\ IF LastAttempt(s.attempt)
       THEN /\ stats' = [stats EXCEPT !.errors = @ + 1]
            /\ failed' = failed (+) SetToBag({s.item})
            /\ message_queue' = Append(message_queue, s.item)
            /\ Move(s, W("errsleep", NoItem, 0))
       ELSE /\ Move(s, W("send", s.item, s.attempt + 1))
            /\ UNCHANGED <<stats, failed, message_queue>>
    /\ UNCHANGED <<now, limiter, direct, is_running, ing, arrived, tasks, mon,
                   terminated, delivered, db_pool, registry, cpu_history, hm>>

\* retry_on_failure has caught the exception: after the last attempt it
\* raises, and the worker counts an error and sleeps one second; before
\* it, it sleeps the backoff and calls _forward_message again.
WorkerRetry(s) ==
    /\ ~terminated
    /\ s.pc = "backoff"
    /\ IF LastAttempt(s.attempt)
       THEN /\ stats' = [stats EXCEPT !.errors = @ + 1]
            /\ failed' = failed (+) SetToBag({s.item})
            /\ Move(s, W("errsleep", NoItem, 0))
       ELSE /\ Move(s, W("send", s.item, s.attempt + 1))
            /\ UNCHANGED <<stats, failed>>
    /\ UNCHANGED <<now, limiter, direct, message_queue, is_running, ing, arrived,
                   tasks, mon, terminated, delivered, db_pool, registry,
                   cpu_history, hm>>

\* A worker whose loop ends with the exception it caught.
WorkerErrSleepStops(s) ==
    /\ ~terminated
    /\ s.pc = "errsleep"
    /\ Move(s, Done)
    /\ UNCHANGED <<now, limiter, direct, message_queue, is_running, ing, arrived,
                   tasks, stats, mon, terminated, delivered, failed, db_pool, registry,
                   cpu_history, hm>>

\* except Exception: ... await asyncio.sleep(1)
WorkerErrSleep(s) ==
    /\ ~terminated
    /\ s.pc = "errsleep"
    /\ Move(s, LoopTop)
    /\ UNCHANGED <<now, limiter, direct, message_queue, is_running, ing, arrived,
                   tasks, stats, mon, terminated, delivered, failed, db_pool, registry,
                   cpu_history, hm>>

\* The send raises ChannelPrivate, ChatAdminRequired or UserNotParticipant:
\* the worker awaits db.update_task_status(task['id'], False).
WorkerSendPermission(s) ==
    /\ ~terminated
    /\ s.pc = "send"
    /\ Move(s, W("disable", s.item, 0))
    /\ UNCHANGED <<now, limiter, direct, message_queue, is_running, ing, arrived,
                   tasks, stats, mon, terminated, delivered, failed, db_pool, registry,
                   cpu_history, hm>>

\* UPDATE tasks SET is_active = FALSE WHERE id = $2, unless the store
\* fails (update_task_status then returns False); then the worker awaits
\* the notification.
WorkerDisable(s, db_ok) ==
    /\ ~terminated
    /\ s.pc = "disable"
    /\ tasks' = IF db_ok
                THEN [tasks EXCEPT ![s.item.task].is_active = FALSE]
                ELSE tasks
    /\ Move(s, W("notify", s.item, 0))
    /\ UNCHANGED <<now, limiter, direct, message_queue, is_running, ing, arrived,
                   stats, mon, terminated, delivered, failed, db_pool, registry,
                   cpu_history, hm>>

\* The notification is over: _forward_message returns False and the
\* worker counts an error.
WorkerNotified(s) ==
    /\ ~terminated
    /\ s.pc = "notify"
    /\ stats' = [stats EXCEPT !.errors = @ + 1]
    /\ failed' = failed (+) SetToBag({s.item})
    /\ Move(s, LoopTop)
    /\ UNCHANGED <<now, limiter, direct, message_queue, is_running, ing, arrived,
                   tasks, mon, terminated, delivered, db_pool, registry,
                   cpu_history, hm>>

(***************************************************************************)
(* The resource monitor: _monitor_resources (src/main.py:608-633) and      *)
(* _graceful_restart (src/main.py:635-670).                                *)
(***************************************************************************)
\* The memory readings, in MB: below the warning level, between the
\* monitor's two levels, above the critical level.
MemoryReadings == {300, 420, 460}
\* if memory_usage > 450 (src/main.py:614)
CriticalMemory == 450

\* for task in self.worker_tasks: if not task.done(): task.cancel()
CancelAll(pool) ==
    Copies(Done, CopiesIn(Done, pool))
        (+) Copies(Cancelled, BagCardinality(pool) - CopiesIn(Done, pool))

\* while self.message_queue.qsize() > 0 and wait_time < 30
Draining(q, wait_time) == Len(q) > 0 /\ wait_time < DrainTimeout

\* Where _graceful_restart stands once the drain loop's test is made: it
\* sleeps a second, or it cancels the tasks and awaits db.close().
\* While the loop waits, backlog keeps the queue as the restart found it.
DrainStep(wait_time, backlog) ==
    IF Draining(message_queue, wait_time)
    THEN /\ mon' = [mon EXCEPT !.pc = "drain", !.wait_time = wait_time,
                               !.backlog = backlog]
         /\ UNCHANGED workers
    ELSE /\ mon' = [mon EXCEPT !.pc = "close", !.wait_time = wait_time,
                               !.backlog = <<>>]
         /\ workers' = CancelAll(workers)

\* One round of the monitor's loop: a sample that is not critical leaves
\* the monitor sleeping to its next round; a critical one makes it await
\* the notification.
MonSample(memory_usage) ==
    /\ ~terminated
    /\ mon.pc = "sample"
    /\ is_running
    /\ mon' = [mon EXCEPT !.memory = memory_usage,
                          !.pc = IF memory_usage > CriticalMemory
                                 THEN "notify" ELSE "sample"]
    /\ UNCHANGED <<now, limiter, direct, message_queue, is_running, workers, ing,
                   arrived, tasks, stats, terminated, delivered, failed, db_pool, registry,
                   cpu_history, hm>>

\* _graceful_restart begins: the running flag is cleared and the drain
\* loop makes its first test.
MonRestart ==
    /\ ~terminated
    /\ mon.pc = "notify"
    /\ is_running' = FALSE
    /\ DrainStep(0, message_queue)
    /\ UNCHANGED <<now, limiter, direct, message_queue, ing, arrived, tasks,
                   stats, terminated, delivered, failed, db_pool, registry,
                   cpu_history, hm>>

\* await asyncio.sleep(1); wait_time += 1; and the loop's next test
MonDrain ==
    /\ ~terminated
    /\ mon.pc = "drain"
    /\ DrainStep(mon.wait_time + 1, mon.backlog)
    /\ UNCHANGED <<now, limiter, direct, message_queue, is_running, ing, arrived,
                   tasks, stats, terminated, delivered, failed, db_pool, registry,
                   cpu_history, hm>>

\* await self.db.close(), reached with the monitor's own cancellation
\* pending: _graceful_restart runs in the monitor task, which is one of
\* worker_tasks and not done, so the loop before has cancelled it too.
\* The CancelledError is raised at the first await that suspends.  Where
\* that is, and whether an except Exception on the way catches it, is
\* the interpreter's and the pool's doing:
\*   "raised"  pool.close() suspends and the error leaves the monitor
\*             task (CancelledError is no Exception);
\*   "caught"  pool.close() suspends and Database.close's except
\*             Exception logs the error (CancelledError is an Exception);
\*   "closed"  pool.close() ends without suspending and the cancellation
\*             stays pending.
CloseOutcomes == {"raised", "caught", "closed"}

MonClose(outcome) ==
    /\ ~terminated
    /\ mon.pc = "close"
    /\ db_pool' = IF outcome = "closed" THEN "closed" ELSE "interrupted"
    /\ mon' = [mon EXCEPT !.pc = CASE outcome = "raised" -> "cancelled"
                                   [] outcome = "caught" -> "stop"
                                   [] OTHER -> "stop_pending"]
    /\ UNCHANGED <<now, limiter, direct, message_queue, is_running, workers, ing,
                   arrived, tasks, stats, terminated, delivered, failed, registry,
                   cpu_history, hm>>

\* await self.userbot.stop(); await self.control_bot.stop().  With the
\* cancellation still pending the error is raised here, and it either
\* leaves the task or is caught by _graceful_restart's except Exception,
\* which calls sys.exit(1).
MonStopClients(caught) ==
    /\ ~terminated
    /\ mon.pc \in {"stop", "stop_pending"}
    /\ mon' = [mon EXCEPT !.pc = IF mon.pc = "stop" \/ caught
                                 THEN "exit" ELSE "cancelled"]
    /\ UNCHANGED <<now, limiter, direct, message_queue, is_running, workers, ing,
                   arrived, tasks, stats, terminated, delivered, failed, db_pool, registry,
                   cpu_history, hm>>

\* sys.exit(0) or sys.exit(1): the process ends.
MonExit ==
    /\ ~terminated
    /\ mon.pc = "exit"
    /\ mon' = [mon EXCEPT !.pc = "exited"]
    /\ terminated' = TRUE
    /\ UNCHANGED <<now, limiter, direct, message_queue, is_running, workers, ing,
                   arrived, tasks, stats, delivered, failed, db_pool, registry,
                   cpu_history, hm>>

\* The monitor task has ended cancelled, and so have the workers: the
\* gather in start() raises CancelledError, asyncio.run(forwarder.start())
\* raises it in turn and no except clause of the main block catches it.
MonAbort ==
    /\ ~terminated
    /\ mon.pc = "cancelled"
    /\ mon' = [mon EXCEPT !.pc = "aborted"]
    /\ terminated' = TRUE
    /\ UNCHANGED <<now, limiter, direct, message_queue, is_running, workers, ing,
                   arrived, tasks, stats, delivered, failed, db_pool, registry,
                   cpu_history, hm>>

Positions == BagToSet(workers)

Ingest(sources, limit) ==
    \/ \E src \in sources : IngestStart(src, limit)
    \/ \E db_ok \in BOOLEAN : IngestFetch(db_ok)
    \/ IngestLoop

\* The worker's loop around a send that succeeds.
WorkerLoop(s) ==
    \/ WorkerGet(s)
    \/ WorkerCheck(s)
    \/ WorkerRequeue(s)
    \/ WorkerSendOk(s)

\* A send that fails with a permission error.
WorkerPermission(s) ==
    \/ WorkerSendPermission(s)
    \/ \E db_ok \in BOOLEAN : WorkerDisable(s, db_ok)
    \/ WorkerNotified(s)

\* retry_on_failure after a send that raised.
WorkerRetries(s) ==
    \/ WorkerFloodWake(s)
    \/ WorkerRetry(s)
    \/ WorkerErrSleep(s)

Monitor ==
    \/ \E m \in MemoryReadings : MonSample(m)
    \/ MonRestart
    \/ MonDrain
    \/ \E outcome \in CloseOutcomes : MonClose(outcome)
    \/ \E caught \in BOOLEAN : MonStopClients(caught)
    \/ MonExit
    \/ MonAbort

(***************************************************************************)
(* Spec: the pipeline while the transport answers a send with success or   *)
(* with a permission error.                                                *)
(***************************************************************************)
Next ==
    \/ Tick
    \/ Ingest({1}, MaxMsgs)
    \/ \E s \in Positions :
          WorkerLoop(s) \/ WorkerTimeout(s) \/ WorkerPermission(s)
    \/ Monitor

Spec == Init /\ [][Next]_vars

(***************************************************************************)
(* SpecRetry: the pipeline while the transport may answer a send with any  *)
(* failure: FloodWait, a permission error or another exception.            *)
(***************************************************************************)
NextRetry ==
    \/ Tick
    \/ Ingest({1}, RetryMsgs)
    \/ \E s \in Positions :
          \/ WorkerLoop(s) \/ WorkerTimeout(s) \/ WorkerPermission(s)
          \/ \E w \in 1..MaxFloodWait : WorkerSendFlood(s, w)
          \/ WorkerSendError(s)
          \/ WorkerRetries(s)
    \/ Monitor

SpecRetry == Init /\ [][NextRetry]_vars

(***************************************************************************)
(* SpecStarve: every send succeeds and the clock stands, so a destination  *)
(* that has used up its window stays denied.  A worker that can take a    *)
(* step again and again takes it in the end (a worker waiting in put is    *)
(* not overtaken for ever), and the ingestion handler runs on.             *)
(***************************************************************************)
\* The traffic: a burst from source 2 and then a message from source 1.
StarveSource(n) == IF n < StarveMsgs THEN 2 ELSE 1

NextStarve ==
    \/ IngestStart(StarveSource(arrived + 1), StarveMsgs)
    \/ IngestFetch(TRUE)
    \/ IngestLoop
    \/ \E s \in Positions : WorkerLoop(s)

\* Every position a worker can be at when every send succeeds.
AllItems ==
    {it \in [msg : 1..StarveMsgs, task : Rules] :
        TaskSource(it.task) = StarveSource(it.msg)}
AllPositions ==
    {Idle} \cup {W(pc, it, 0) : pc \in {"got", "send"}, it \in AllItems}
PutPositions == {W("requeue", it, 0) : it \in AllItems}

WorkerAt(s) == s \in Positions /\ WorkerLoop(s)

SpecStarve ==
    /\ Init
    /\ [][NextStarve]_vars
    /\ \A s \in AllPositions : WF_vars(WorkerAt(s))
    /\ \A s \in PutPositions : SF_vars(WorkerAt(s))
    /\ WF_vars(IngestFetch(TRUE))
    /\ WF_vars(IngestLoop)

(***************************************************************************)
(* SpecFail: a destination whose every send fails.  FailMsgs messages      *)
(* arrive from the source of rule 3, and the transport answers every send  *)
(* with an unclassified error.                                             *)
(***************************************************************************)
NextFail ==
    \/ IngestStart(TaskSource(3), FailMsgs)
    \/ IngestFetch(TRUE)
    \/ IngestLoop
    \/ \E s \in Positions :
          \/ WorkerGet(s)
          \/ WorkerCheck(s)
          \/ WorkerSendError(s)
          \/ WorkerRetries(s)

SpecFail == Init /\ [][NextFail]_vars

(***************************************************************************)
(* SpecAdaptive: _get_adaptive_limit as a function of its inputs.  The     *)
(* success rates and error counts of two chats are drawn from a grid that  *)
(* holds the breakpoints 0.5 and 0.8 and their neighbours, and the limit   *)
(* is asked for one chat or the other with the limiter as deployed         *)
(* (chat_limit = 30).                                                      *)
(***************************************************************************)
\* self.chat_limit = 30 (src/utils.py:261)
DeployedChatLimit == 30
RateGrid == {0, 250, 499, 500, 650, 799, 800, 900, RateUnit}
AskDests == {1, 2}
DeployedLimit(d) == AdaptiveLimit(DeployedChatLimit, RateOf(d), error_counts[d])

InitAdaptive ==
    /\ now = 0
    /\ global_counter = <<>>
    /\ chat_counters = [c \in Dests |-> <<>>]
    /\ flood_wait_until = [c \in Dests |-> NoWait]
    /\ permanent_bans = {}
    /\ \E r1 \in RateGrid \cup {NoRate}, r2 \in RateGrid :
          success_rates = [c \in Dests |-> IF c = 1 THEN r1
                                           ELSE IF c = 2 THEN r2 ELSE NoRate]
    /\ \E e1 \in 0..MaxErrors, e2 \in 0..MaxErrors :
          error_counts = [c \in Dests |-> IF c = 1 THEN e1
                                          ELSE IF c = 2 THEN e2 ELSE 0]
    /\ call = NoCall
    /\ last_flood = [c \in Dests |-> NoWait]
    /\ scen = NoScen
    /\ message_queue = <<>>
    /\ is_running = TRUE
    /\ workers = Copies(Idle, NumWorkers)
    /\ ing = IngIdle
    /\ arrived = 0
    /\ tasks = [r \in Rules |->
                   [is_active |-> TRUE, messages_forwarded |-> 0,
                    last_error |-> NoError]]
    /\ stats = [messages_forwarded |-> 0, errors |-> 0]
    /\ mon = [pc |-> "sample", memory |-> 0, wait_time |-> 0,
              backlog |-> <<>>]
    /\ terminated = FALSE
    /\ delivered = EmptyBag
    /\ failed = EmptyBag
    /\ db_pool = "open"
    /\ cpu_history = <<>>
    /\ table = RuleRows
    /\ next_id = Cardinality(Rules) + 1
    /\ active_tasks = CacheOf(RuleRows)
    /\ hm = NoHandle

\* chat_limit = self._get_adaptive_limit(chat_id): the call and its answer
AskLimit(chat_id) ==
    /\ call' = [op |-> "limit", chat |-> chat_id, gate |-> "none",
                limit |-> DeployedLimit(chat_id)]
    /\ UNCHANGED <<now, limiter, last_flood, scen, pipeline, registry, hm>>

NextAdaptive == \E c \in AskDests : AskLimit(c)

SpecAdaptive == InitAdaptive /\ [][NextAdaptive]_vars

(***************************************************************************)
(* C4.  With pairwise distinct chats asked and recorded within one window, *)
(* the first global_limit calls of can_send answer allow, and the call     *)
(* after them is denied, by the global gate.                               *)
(***************************************************************************)
C4_GlobalGateDeniesTheNext ==
    \A i \in 1..Len(scen.gates) :
        /\ i <= global_limit => scen.gates[i] = "allow"
        /\ i = global_limit + 1 => scen.gates[i] = "global"

C4_Witness ==
    /\ Len(scen.gates) = global_limit + 1
    /\ now - scen.start = window_size

(***************************************************************************)
(* C5 as stated.  After set_flood_wait(X, w) at time t, can_send(X) before *)
(* t + w answers deny and can_send(X) from t + w on answers allow,         *)
(* whatever the window counts are.                                         *)
(***************************************************************************)
FloodSet(c) == last_flood[c] # NoWait

C5_AllowedRightAfterFloodWait ==
    (call.op = "can_send" /\ FloodSet(call.chat)) =>
        /\ now < last_flood[call.chat] => call.gate # "allow"
        /\ now >= last_flood[call.chat] => call.gate = "allow"

(***************************************************************************)
(* C5 amended.  can_send(X) before t + w is denied by the flood-wait gate. *)
(* From t + w on the flood wait no longer decides: the entry is deleted    *)
(* and the call answers allow exactly when X is not banned, the cleaned    *)
(* global window holds fewer than global_limit sends and the cleaned       *)
(* window of X fewer than its adaptive limit.                              *)
(***************************************************************************)
WindowsOpen(c) ==
    /\ c \notin permanent_bans
    /\ Len(global_counter) < global_limit
    /\ Len(chat_counters[c]) < _get_adaptive_limit(c)

C5_FloodWaitThenWindows ==
    (call.op = "can_send" /\ FloodSet(call.chat)) =>
        /\ now < last_flood[call.chat] => call.gate = "flood"
        /\ now >= last_flood[call.chat] =>
               /\ call.gate # "flood"
               /\ flood_wait_until[call.chat] = NoWait
               /\ call.gate = "allow" <=> WindowsOpen(call.chat)

C5_Witness ==
    /\ call.op = "can_send"
    /\ FloodSet(call.chat)
    /\ now = last_flood[call.chat]
    /\ call.gate = "global"

(***************************************************************************)
(* C1.  The queue never holds more than its capacity; a step of the        *)
(* ingestion handler that finds the queue at capacity leaves its length    *)
(* as it is, and the handler is never kept from taking its step.           *)
(***************************************************************************)
HandlerInLoop == ing.pc \in {"loop", "notify"}
HandlerStep == ing' # ing
AtCapacity == Len(message_queue) >= QueueMax

C1_QueueWithinCapacity ==
    /\ [](Len(message_queue) <= QueueMax)
    /\ [][(HandlerInLoop /\ HandlerStep /\ AtCapacity)
             => Len(message_queue') = Len(message_queue)]_vars
    /\ []((HandlerInLoop /\ ~terminated) => ENABLED IngestLoop)

C1_Witness ==
    /\ Len(message_queue) = QueueMax
    /\ ing.pc = "notify"
    /\ \E s \in Positions : s.item # NoItem

(***************************************************************************)
(* C2.  When the handler reaches a rule's item with the queue full, it     *)
(* drops the item, goes on to notify the operator and leaves the queue     *)
(* as it is; no step of the handler waits for room in the queue, and a     *)
(* later message is taken whatever the queue holds.                        *)
(***************************************************************************)
DropsHead ==
    /\ message_queue' = message_queue
    /\ ing'.pc = "notify"
    /\ ing'.todo = Tail(ing.todo)
    /\ ing'.msg = ing.msg

C2_FullQueueDropsAndNotifies ==
    /\ [][(HandlerInLoop /\ HandlerStep /\ AtCapacity /\ ing.todo # <<>>)
             => DropsHead]_vars
    /\ []((ing.pc = "fetch" /\ ~terminated) => ENABLED IngestFetch(TRUE))
    /\ []((ing.pc = "idle" /\ ~terminated /\ arrived < MaxMsgs)
             => ENABLED IngestStart(1, MaxMsgs))

C2_Witness ==
    /\ ing.pc = "notify"
    /\ ing.todo # <<>>
    /\ Len(message_queue) = QueueMax
    /\ \A i \in 1..Len(message_queue) : message_queue[i].msg # ing.msg

(***************************************************************************)
(* C3 as stated.  For every destination, the sends recorded within the     *)
(* trailing window never outnumber its adaptive limit.                     *)
(***************************************************************************)
InWindow(t) == t >= Cutoff(now)
RecordedInWindow(chat_id) == Len(SelectSeq(chat_counters[chat_id], InWindow))

C3_WindowWithinAdaptiveLimit ==
    \A c \in Dests : RecordedInWindow(c) <= _get_adaptive_limit(c)

(***************************************************************************)
(* C6 as stated.  Once the store shows a rule inactive after a permission  *)
(* error, no worker invokes the send for that rule and none updates the    *)
(* rule's status again.                                                    *)
(***************************************************************************)
\* The number of workers at pc with an item of the rule.
At(pool, pc, r) ==
    BagCardinality([s \in {x \in BagToSet(pool) : x.pc = pc /\ x.item.task = r}
                      |-> pool[s]])
SendInvoked(r) == At(workers', "send", r) > At(workers, "send", r)
StatusUpdated(r) == At(workers', "notify", r) > At(workers, "notify", r)

C6_DisabledOnceNoMoreSends ==
    [][\A r \in Rules :
          ~tasks[r].is_active => (~SendInvoked(r) /\ ~StatusUpdated(r))]_vars

(***************************************************************************)
(* C7 as stated, its first part.  Once the monitor has seen memory above   *)
(* the critical level, the ingestion handler puts no item in the queue.    *)
(***************************************************************************)
CriticalObserved == mon.memory > CriticalMemory
HandlerEnqueues == HandlerStep /\ Len(message_queue') > Len(message_queue)

C7_NoEnqueueAfterCritical == [][CriticalObserved => ~HandlerEnqueues]_vars

(***************************************************************************)
(* C10 as stated.  The send is invoked at most 3 times for one item.       *)
(***************************************************************************)
\* The invocations of the send made so far for the item a worker holds.
Invocations(s) == s.attempt + 1

HeldIn(pool, it) == \E x \in BagToSet(pool) : x.item = it
Leaves(s) ==
    /\ CopiesIn(s, workers') < CopiesIn(s, workers)
    /\ CopiesIn(Cancelled, workers') = CopiesIn(Cancelled, workers)

Throttled == TaskDest(1)
Healthy == TaskDest(2)
HealthyItems == {it \in AllItems : TaskDest(it.task) = Healthy}
Queued(it) == InSeq(it, message_queue)
Held(it) == \E s \in Positions : s.item = it
Sent(it) == CopiesIn(it, delivered) > 0

C8_HealthyNotStarved ==
    (<>[](Gate(Throttled) # "allow") /\ [](Gate(Healthy) = "allow"))
        => \A y \in HealthyItems : [](Queued(y) => <>Sent(y))

(***************************************************************************)
(* C9 as stated.  An item that can_send denied is not dropped: the worker  *)
(* puts it back in the queue, and a worker takes it again.                 *)
(***************************************************************************)
Denied(it) == \E s \in Positions : s.pc = "requeue" /\ s.item = it
Retaken(it) == \E s \in Positions : s.pc = "got" /\ s.item = it

C9_DeniedItemRetried ==
    \A it \in AllItems : [](Denied(it) => <>(Queued(it) /\ <>Retaken(it)))

(***************************************************************************)
(* C11 as stated.  A send that fails with an unclassified error is         *)
(* recorded as a failure of its destination in the rate limiter            *)
(* (error_counts of the destination grows by one), and the item is         *)
(* dropped: the worker no longer holds it and it is not in the queue, so   *)
(* the send is not invoked for it again.                                   *)
(***************************************************************************)
DroppedAfter(it) ==
    /\ ~InSeq(it, message_queue')
    /\ \A t \in BagToSet(workers') : t.item # it

C11_UnclassifiedRecordedAndDropped ==
    [][\A s \in Positions :
          WorkerSendError(s) =>
              /\ error_counts'[TaskDest(s.item.task)]
                     = error_counts[TaskDest(s.item.task)] + 1
              /\ DroppedAfter(s.item)]_vars

(***************************************************************************)
(* C12 as stated.  In the running pipeline the cap of a destination        *)
(* shrinks with its failed deliveries: once more than 5 deliveries to d    *)
(* have failed, the adaptive limit the workers' can_send(d) uses is below  *)
(* the base limit of 30, and once more than 10 have failed it is below     *)
(* the limit of the first reduction.                                       *)
(***************************************************************************)
FailedTo(d) ==
    BagCardinality([it \in {x \in BagToSet(failed) : TaskDest(x.task) = d}
                       |-> CopiesIn(it, failed)])
FirstReduction == AdaptiveLimit(DeployedChatLimit, RateUnit, 6)

C12_CapShrinksWithFailures ==
    \A d \in Dests :
        /\ FailedTo(d) > 5 => DeployedLimit(d) < DeployedChatLimit
        /\ FailedTo(d) > 10 => DeployedLimit(d) < FirstReduction

(***************************************************************************)
(* C13 as stated.  The forwarded-message counter of a rule in the task     *)
(* store equals the number of successful sends made for the rule.          *)
(***************************************************************************)
DeliveredFor(r) ==
    BagCardinality([it \in {x \in BagToSet(delivered) : x.task = r}
                       |-> CopiesIn(it, delivered)])

C13_StoreCountsDeliveries ==
    \A r \in Rules : tasks[r].messages_forwarded = DeliveredFor(r)

(***************************************************************************)
(* C14 as stated.  A rule the pipeline has disabled after a permission     *)
(* error is inactive in the task store and its row carries a last-error    *)
(* string.                                                                 *)
(***************************************************************************)
C14_DisabledRuleHasLastError ==
    \A r \in Rules : ~tasks[r].is_active => tasks[r].last_error # NoError

(***************************************************************************)
(* C15 as stated.  When the worker has handled a permission error (the     *)
(* store update and the notification are over and _forward_message         *)
(* returns False), the send was invoked once for the item, the rule is     *)
(* inactive in the task store, the item is dropped, the worker has         *)
(* counted one error and it is back at the top of its loop.                *)
(***************************************************************************)
PermissionHandled(s) ==
    /\ s.attempt = 0
    /\ stats'.errors = stats.errors + 1
    /\ DroppedAfter(s.item)
    /\ CopiesIn(LoopTop, workers') = CopiesIn(LoopTop, workers) + 1

C15_PermissionErrorDisablesRule ==
    [][\A s \in Positions :
          WorkerNotified(s) =>
              (PermissionHandled(s) /\ ~tasks'[s.item.task].is_active)]_vars

(***************************************************************************)
(* C16 as stated.  After a monitor tick that found memory at the warning   *)
(* level (above the warning threshold, not above the critical one) and     *)
(* until the next tick, the handler puts no item in the queue.             *)
(***************************************************************************)
\* elif memory_usage > 400 (src/main.py:623)
WarningMemory == 400
WarningObserved ==
    /\ mon.pc = "sample"
    /\ mon.memory > WarningMemory
    /\ mon.memory <= CriticalMemory

C16_WarningPausesIngestion == [][WarningObserved => ~HandlerEnqueues]_vars

(***************************************************************************)
(* C17 as stated.  _graceful_restart closes the store only after it has    *)
(* cleared the running flag and cancelled every worker not yet done, and   *)
(* the process ends only by the sequence's own exit, with the store's      *)
(* connections closed and the clients stopped before it.                   *)
(***************************************************************************)
WorkersStopped == \A s \in Positions : s.pc \in {"done", "cancelled"}

C17_RestartClosesStoreThenExits ==
    /\ db_pool # "open" => (~is_running /\ WorkersStopped)
    /\ terminated => (db_pool = "closed" /\ mon.pc = "exited")

(***************************************************************************)
(* C18 as stated.  No step of the shutdown cancels a worker that is        *)
(* inside the external send call: while some worker is there, no worker    *)
(* task is cancelled.                                                      *)
(***************************************************************************)
SendInFlight == \E s \in Positions : s.pc \in {"send", "floodsleep"}
CancelsWorkers == CopiesIn(Cancelled, workers') > CopiesIn(Cancelled, workers)

C18_NoCancelDuringSend == [][SendInFlight => ~CancelsWorkers]_vars

(***************************************************************************)
(* C19.  While the running flag is set, a worker handling a failed         *)
(* delivery (a send that raised, the retry budget used up, a store update  *)
(* that failed, the notification) never leaves its loop: no step that      *)
(* keeps the flag set ends or cancels a worker, a worker handling a        *)
(* failure always has its next step, the step that ends the handling       *)
(* puts the worker back at the dequeue, and the steps of the handling      *)
(* leave the queue as it is.                                               *)
(***************************************************************************)
Handling == {"backoff", "errsleep", "disable", "notify"}
HandlingStep(s) == WorkerRetries(s) \/ WorkerPermission(s)
LoopsLeft(pool) == CopiesIn(Done, pool) + CopiesIn(Cancelled, pool)

C19_FailureKeepsWorkerLooping ==
    /\ [][is_running' => LoopsLeft(workers') = LoopsLeft(workers)]_vars
    /\ [](\A s \in Positions :
             (s.pc \in Handling /\ ~terminated) => ENABLED HandlingStep(s))
    /\ [][\A s \in Positions :
             (s.pc \in Handling /\ HandlingStep(s)) =>
                 /\ message_queue' = message_queue
                 /\ (s.pc \in {"errsleep", "notify"} /\ is_running) =>
                        CopiesIn(Idle, workers') = CopiesIn(Idle, workers) + 1]_vars

C19_Witness ==
    /\ is_running
    /\ stats.errors = 2
    /\ \E r \in Rules : ~tasks[r].is_active
    /\ \E it \in BagToSet(failed) : tasks[it.task].is_active
    /\ CopiesIn(Idle, workers) = NumWorkers

(***************************************************************************)
(* C20.  A delivery item is in one place at a time: in the queue once, or  *)
(* held by one worker, or gone after its one successful send or after an   *)
(* error; it is never held by two workers, never queued while held, and    *)
(* never sent successfully twice.                                          *)
(***************************************************************************)
EveryItem == [msg : 1..MaxMsgs, task : Rules]
QueuedTimes(it) ==
    Cardinality({i \in 1..Len(message_queue) : message_queue[i] = it})
Holders(it) ==
    BagCardinality([s \in {t \in Positions : t.item = it}
                       |-> CopiesIn(s, workers)])

C20_OneOwnerPerItem ==
    \A it \in EveryItem :
        /\ Holders(it) <= 1
        /\ QueuedTimes(it) + Holders(it) <= 1
        /\ CopiesIn(it, delivered) <= 1
        /\ CopiesIn(it, delivered) > 0 => QueuedTimes(it) + Holders(it) = 0

C20_Witness ==
    /\ \E s \in Positions : s.pc = "requeue"
    /\ \E s \in Positions : s.pc = "send"
    /\ Len(message_queue) > 0
    /\ delivered # EmptyBag

(***************************************************************************)
(* C21.  For one error count, the adaptive limit of the deployed limiter   *)
(* does not grow as the success rate falls: the limit answered for a chat  *)
(* is at least the limit of a chat with the same error count and a         *)
(* success rate that is no higher.  With an error count of at most 5 the   *)
(* answers are 30 at 0.8 and above, 18 from 0.5 up to 0.8, 9 below 0.5.    *)
(***************************************************************************)
C21_LimitFallsWithSuccessRate ==
    call.op = "limit" =>
        /\ \A d \in AskDests :
               (error_counts[d] = error_counts[call.chat]
                   /\ RateOf(d) <= RateOf(call.chat))
                   => DeployedLimit(d) <= call.limit
        /\ error_counts[call.chat] <= 5 =>
               call.limit = IF RateOf(call.chat) >= 800 THEN 30
                            ELSE IF RateOf(call.chat) >= 500 THEN 18 ELSE 9

C21_Witness ==
    /\ call.op = "limit"
    /\ call.limit = 18
    /\ \E d \in AskDests :
          /\ error_counts[d] = error_counts[call.chat]
          /\ RateOf(d) = 499
          /\ DeployedLimit(d) = 9

(***************************************************************************)
(* SpecStore: the tasks table under the operations of Database             *)
(* (src/database.py:165-335).  Every operation catches its exceptions and  *)
(* returns False, so the retry decorator around it never retries; db_ok    *)
(* says whether the statement ran.  The id sequence is advanced on an      *)
(* insert only: the values a conflicting insert skips are never seen.      *)
(***************************************************************************)
StoreSources == {1, 2}
StoreDests == {1, 2}
Ids == 1..MaxId
RowsOf(source_id, destination_id) ==
    {row \in table : row.source_id = source_id
                       /\ row.destination_id = destination_id}
HasId(id) == \E row \in table : row.id = id

\* INSERT without the ON CONFLICT clause into a table without the
\* UNIQUE constraint
UpsertInsertsAgain(source_id, destination_id) ==
    table \cup {NewRow(next_id, source_id, destination_id)}

\* INSERT ... ON CONFLICT (source_id, destination_id) DO UPDATE SET
\* is_active = TRUE, error_count = 0, last_error = NULL
Upsert(source_id, destination_id) ==
    IF RowsOf(source_id, destination_id) = {}
    THEN table \cup {NewRow(next_id, source_id, destination_id)}
    ELSE {IF row \in RowsOf(source_id, destination_id)
          THEN [row EXCEPT !.is_active = TRUE, !.error_count = 0,
                           !.last_error = NoError]
          ELSE row : row \in table}

\* UPDATE tasks SET is_active = $1 WHERE id = $2
SetStatus(id, is_active) ==
    {IF row.id = id THEN [row EXCEPT !.is_active = is_active] ELSE row :
        row \in table}

\* DELETE FROM tasks WHERE id = $1
Remove(id) == {row \in table : row.id # id}

StoreCall(op, db_ok) == [op |-> op, chat |-> 0, gate |-> "none", ok |-> db_ok]

db_add_task(source_id, destination_id, db_ok) ==
    /\ db_ok /\ RowsOf(source_id, destination_id) = {} => next_id <= MaxId
    /\ IF db_ok
       THEN /\ table' = Upsert(source_id, destination_id)
            /\ next_id' = IF RowsOf(source_id, destination_id) = {}
                          THEN next_id + 1 ELSE next_id
       ELSE UNCHANGED <<table, next_id>>
    /\ call' = [op |-> "add_task", chat |-> 0, gate |-> "none", ok |-> db_ok,
                before |-> RowsOf(source_id, destination_id)]
    /\ UNCHANGED <<now, limiter, last_flood, scen, pipeline, active_tasks, hm>>

db_update_task_status(id, is_active, db_ok) ==
    /\ table' = IF db_ok THEN SetStatus(id, is_active) ELSE table
    /\ call' = StoreCall("update_task_status", db_ok /\ HasId(id))
    /\ UNCHANGED <<now, limiter, last_flood, scen, pipeline, next_id,
                   active_tasks, hm>>

db_delete_task(id, db_ok) ==
    /\ table' = IF db_ok THEN Remove(id) ELSE table
    /\ call' = StoreCall("delete_task", db_ok /\ HasId(id))
    /\ UNCHANGED <<now, limiter, last_flood, scen, pipeline, next_id,
                   active_tasks, hm>>

db_pause_all_tasks(db_ok) ==
    /\ table' = IF db_ok
                THEN {[row EXCEPT !.is_active = FALSE] : row \in table}
                ELSE table
    /\ call' = StoreCall("pause_all_tasks", db_ok)
    /\ UNCHANGED <<now, limiter, last_flood, scen, pipeline, next_id,
                   active_tasks, hm>>

db_resume_all_tasks(db_ok) ==
    /\ table' = IF db_ok
                THEN {IF row.is_active THEN row
                      ELSE [row EXCEPT !.is_active = TRUE, !.error_count = 0,
                                       !.last_error = NoError] : row \in table}
                ELSE table
    /\ call' = StoreCall("resume_all_tasks", db_ok)
    /\ UNCHANGED <<now, limiter, last_flood, scen, pipeline, next_id,
                   active_tasks, hm>>

\* update_task_stats(task_id, False, error_msg): the branch that writes
\* error_count and last_error.
db_update_task_stats(id, db_ok) ==
    /\ \A row \in table : row.id = id => row.error_count < MaxErrorCount
    /\ table' = IF db_ok
                THEN {IF row.id = id
                      THEN [row EXCEPT !.error_count = @ + 1,
                                       !.last_error = "error"]
                      ELSE row : row \in table}
                ELSE table
    /\ call' = StoreCall("update_task_stats", db_ok)
    /\ UNCHANGED <<now, limiter, last_flood, scen, pipeline, next_id,
                   active_tasks, hm>>

NextStore ==
    \/ \E source_id \in StoreSources, destination_id \in StoreDests,
          db_ok \in BOOLEAN : db_add_task(source_id, destination_id, db_ok)
    \/ \E id \in Ids, is_active \in BOOLEAN, db_ok \in BOOLEAN :
          db_update_task_status(id, is_active, db_ok)
    \/ \E id \in Ids, db_ok \in BOOLEAN : db_delete_task(id, db_ok)
    \/ \E db_ok \in BOOLEAN : db_pause_all_tasks(db_ok)
    \/ \E db_ok \in BOOLEAN : db_resume_all_tasks(db_ok)
    \/ \E id \in Ids, db_ok \in BOOLEAN : db_update_task_stats(id, db_ok)

SpecStore == Init /\ [][NextStore]_vars

(***************************************************************************)
(* C25.  The tasks table holds at most one row for a pair of source and    *)
(* destination after any sequence of add_task, update_task_status,         *)
(* delete_task, pause_all_tasks and resume_all_tasks; an add_task for a    *)
(* pair that has a row leaves the table with the same rows, that row       *)
(* active again with error_count 0 and last_error NULL.                    *)
(***************************************************************************)
OneRowPerPair ==
    \A a \in table, b \in table :
        (a.source_id = b.source_id /\ a.destination_id = b.destination_id)
            => a = b

C25_OneRulePerPair ==
    [][/\ OneRowPerPair'
       /\ \A source_id \in StoreSources, destination_id \in StoreDests :
             (db_add_task(source_id, destination_id, TRUE)
                 /\ RowsOf(source_id, destination_id) # {})
                 => /\ {row.id : row \in table'} = {row.id : row \in table}
                    /\ Cardinality(table') = Cardinality(table)
                    /\ \A row \in table' :
                          (row.source_id = source_id
                              /\ row.destination_id = destination_id)
                              => /\ row.is_active
                                 /\ row.error_count = 0
                                 /\ row.last_error = NoError]_vars

C25_Witness ==
    /\ call.op = "add_task"
    /\ call.ok
    /\ \E row \in call.before :
          /\ ~row.is_active
          /\ row.error_count > 0
          /\ \E again \in table : again.id = row.id /\ again.is_active
                                    /\ again.error_count = 0

(***************************************************************************)
(* SpecCache: TelegramUserbot.active_tasks and the operations that keep    *)
(* it (src/userbot.py:58-180).  The store object userbot.py imports        *)
(* (from database import db) is not among the sources: its reads are       *)
(* taken from the task store of the specification (listActive; a read      *)
(* that fails raises), its writes act on the table as the Database         *)
(* methods of the same name do and answer the id or the success.  Each     *)
(* operation is one step; the initial cache is the one start_userbot has   *)
(* loaded.                                                                 *)
(***************************************************************************)
\* db.get_all_active_tasks()
get_all_active_tasks == {row \in table : row.is_active}
\* db.get_task_by_id(task_id): the rows found (none: None)
get_task_by_id(id) == {row \in table : row.id = id}
\* task_id = await db.add_task(source, destination, name)
AddedId(source_id, destination_id) ==
    IF RowsOf(source_id, destination_id) = {}
    THEN next_id
    ELSE (CHOOSE row \in RowsOf(source_id, destination_id) : TRUE).id

CacheCall(op, ok) ==
    [op |-> op, chat |-> 0, gate |-> "none", ok |-> ok, added |-> <<>>]

\* self.active_tasks[task_id] = entry
Put(cache, id, entry) ==
    [k \in DOMAIN cache \cup {id} |-> IF k = id THEN entry ELSE cache[k]]
\* del self.active_tasks[task_id]
Drop(cache, id) == [k \in DOMAIN cache \ {id} |-> cache[k]]

\* load_tasks with self.active_tasks = {} ahead of the awaited read
ReloadedResetFirst(read_ok) ==
    IF read_ok THEN CacheOf(get_all_active_tasks) ELSE CacheOf({})

\* The cache load_tasks leaves: the awaited read comes first, and when it
\* raises, the except clause is all that runs.
Reloaded(read_ok) ==
    IF read_ok THEN CacheOf(get_all_active_tasks) ELSE active_tasks

\* self.active_tasks = {} binds the attribute to a new dict: a loop of
\* handle_new_message that is under way keeps the dict it began with.
Rebound(read_ok) ==
    IF read_ok /\ hm.pc = "forward" /\ ~hm.detached
    THEN [hm EXCEPT !.detached = TRUE, !.old = active_tasks]
    ELSE hm

load_tasks(read_ok) ==
    /\ active_tasks' = Reloaded(read_ok)
    /\ call' = [op |-> "load_tasks", chat |-> 0, gate |-> "none",
                ok |-> read_ok,
                added |-> IF call.op = "add_forwarding_task" /\ call.ok
                          THEN call.added ELSE <<>>]
    /\ hm' = Rebound(read_ok)
    /\ UNCHANGED <<now, limiter, last_flood, scen, pipeline, table, next_id>>

\* add_forwarding_task patching the cache with an entry that is not active
PatchedInactive(id, source_chat, dest_chat) ==
    Put(active_tasks, id, [source_chat |-> source_chat,
                           dest_chat |-> dest_chat, status |-> "inactive"])

\* self.active_tasks[task_id] = {..., 'status': 'active'}
Patched(id, source_chat, dest_chat) ==
    Put(active_tasks, id, [source_chat |-> source_chat,
                           dest_chat |-> dest_chat, status |-> "active"])

add_forwarding_task(source_chat, dest_chat, db_ok) ==
    /\ db_ok /\ RowsOf(source_chat, dest_chat) = {} => next_id <= MaxId
    /\ IF db_ok
       THEN /\ table' = Upsert(source_chat, dest_chat)
            /\ next_id' = IF RowsOf(source_chat, dest_chat) = {}
                          THEN next_id + 1 ELSE next_id
            /\ active_tasks' = Patched(AddedId(source_chat, dest_chat),
                                       source_chat, dest_chat)
       ELSE UNCHANGED <<table, next_id, active_tasks>>
    /\ call' = [op |-> "add_forwarding_task", chat |-> 0, gate |-> "none",
                ok |-> db_ok, added |-> <<source_chat, dest_chat>>]
    /\ UNCHANGED <<now, limiter, last_flood, scen, pipeline, hm>>

disable_task(id, db_ok) ==
    /\ table' = IF db_ok THEN SetStatus(id, FALSE) ELSE table
    /\ active_tasks' = IF db_ok /\ HasId(id) /\ id \in DOMAIN active_tasks
                       THEN [active_tasks EXCEPT ![id].status = "inactive"]
                       ELSE active_tasks
    /\ call' = CacheCall("disable_task", db_ok /\ HasId(id))
    /\ UNCHANGED <<now, limiter, last_flood, scen, pipeline, next_id, hm>>

\* The status is written, then the row is read again; read_ok says
\* whether that second call answered.
enable_task(id, db_ok, read_ok) ==
    /\ table' = IF db_ok THEN SetStatus(id, TRUE) ELSE table
    /\ active_tasks' =
          IF db_ok /\ HasId(id) /\ read_ok
          THEN Put(active_tasks, id,
                   [CacheEntry(RowWithId(table, id)) EXCEPT
                        !.status = "active"])
          ELSE active_tasks
    /\ call' = CacheCall("enable_task", db_ok /\ HasId(id))
    /\ UNCHANGED <<now, limiter, last_flood, scen, pipeline, next_id, hm>>

delete_task(id, db_ok) ==
    /\ table' = IF db_ok THEN Remove(id) ELSE table
    /\ active_tasks' = IF db_ok /\ HasId(id) /\ id \in DOMAIN active_tasks
                       THEN Drop(active_tasks, id)
                       ELSE active_tasks
    /\ call' = CacheCall("delete_task", db_ok /\ HasId(id))
    /\ UNCHANGED <<now, limiter, last_flood, scen, pipeline, next_id, hm>>

NextCache ==
    \/ \E read_ok \in BOOLEAN : load_tasks(read_ok)
    \/ \E source_chat \in StoreSources, dest_chat \in StoreDests,
          db_ok \in BOOLEAN : add_forwarding_task(source_chat, dest_chat, db_ok)
    \/ \E id \in Ids, db_ok \in BOOLEAN : disable_task(id, db_ok)
    \/ \E id \in Ids, db_ok \in BOOLEAN, read_ok \in BOOLEAN :
          enable_task(id, db_ok, read_ok)
    \/ \E id \in Ids, db_ok \in BOOLEAN : delete_task(id, db_ok)

SpecCache == Init /\ [][NextCache]_vars

\* handle_new_message: the cached rules a message of the source matches
Lookup(source_chat) ==
    {id \in DOMAIN active_tasks :
        active_tasks[id].source_chat = source_chat
            /\ active_tasks[id].status = "active"}

(***************************************************************************)
(* C22.  A load_tasks whose read of the store fails leaves active_tasks    *)
(* exactly as it was before the call.                                      *)
(***************************************************************************)
C22_FailedReloadKeepsCache ==
    [][(call'.op = "load_tasks" /\ ~call'.ok)
          => active_tasks' = active_tasks]_vars

C22_Witness ==
    /\ call.op = "load_tasks"
    /\ ~call.ok
    /\ DOMAIN active_tasks # {}
    /\ active_tasks # CacheOf(get_all_active_tasks)

(***************************************************************************)
(* C23.  After an add_forwarding_task of (s, d) that succeeded and the     *)
(* load_tasks that follows it, the cache holds a rule for (s, d) that is   *)
(* active and among the rules a message of s matches, whatever the store   *)
(* held before (a paused rule for (s, d) included).                        *)
(***************************************************************************)
C23_AddThenReloadFinds ==
    (call.op = "load_tasks" /\ call.added # <<>>)
        => \E id \in Lookup(call.added[1]) :
              /\ active_tasks[id].dest_chat = call.added[2]
              /\ active_tasks[id].status = "active"
              /\ \E row \in table :
                    /\ row.id = id
                    /\ row.source_id = call.added[1]
                    /\ row.destination_id = call.added[2]
                    /\ row.is_active

C23_Witness ==
    /\ call.op = "load_tasks"
    /\ call.ok
    /\ call.added = <<2, 2>>
    /\ \E id \in Lookup(2) : active_tasks[id].dest_chat = 2

(***************************************************************************)
(* C24.  add_forwarding_task, disable_task, enable_task and delete_task    *)
(* change the cache only after their store write succeeded, and after      *)
(* each of them the cache agrees with the store: a cached rule is a row    *)
(* of the store with the same source and destination, it is cached as      *)
(* active exactly when the row is active, and every active row is cached.  *)
(***************************************************************************)
CacheAgrees ==
    /\ \A id \in DOMAIN active_tasks :
          \E row \in table :
             /\ row.id = id
             /\ row.source_id = active_tasks[id].source_chat
             /\ row.destination_id = active_tasks[id].dest_chat
             /\ row.is_active <=> active_tasks[id].status = "active"
    /\ \A row \in table : row.is_active => row.id \in DOMAIN active_tasks

MutationOps ==
    {"add_forwarding_task", "disable_task", "enable_task", "delete_task"}

C24_CacheFollowsStore ==
    [][call'.op \in MutationOps
          => /\ ~call'.ok => active_tasks' = active_tasks
             /\ CacheAgrees']_vars

(***************************************************************************)
(* SpecBan: the RateLimiter with its permanent bans                        *)
(* (src/utils.py:335-345) next to can_send, record_message and             *)
(* set_flood_wait.                                                         *)
(***************************************************************************)
\* self.permanent_bans = {chat_id}: the ban as the only ban
ban_chat_alone(chat_id) ==
    permanent_bans' = {chat_id}

\* self.permanent_bans.add(chat_id)
ban_chat_permanently(chat_id) ==
    permanent_bans' = permanent_bans \cup {chat_id}

\* self.permanent_bans.discard(chat_id); del self.flood_wait_until[chat_id]
unban_chat(chat_id) ==
    /\ permanent_bans' = permanent_bans \ {chat_id}
    /\ flood_wait_until' = [flood_wait_until EXCEPT ![chat_id] = NoWait]

RLBan(chat_id) ==
    /\ ban_chat_permanently(chat_id)
    /\ call' = [op |-> "ban", chat |-> chat_id, gate |-> "none"]
    /\ UNCHANGED <<now, global_counter, chat_counters, flood_wait_until,
                   success_rates, error_counts, last_flood, scen, pipeline,
                   registry, hm>>

RLUnban(chat_id) ==
    /\ unban_chat(chat_id)
    /\ call' = [op |-> "unban", chat |-> chat_id, gate |-> "none"]
    /\ UNCHANGED <<now, global_counter, chat_counters, success_rates,
                   error_counts, last_flood, scen, pipeline, registry, hm>>

NextBan ==
    \/ Tick
    \/ \E c \in RLDests : RLCanSend(c)
    \/ \E c \in RLDests : RLRecord(c)
    \/ \E c \in RLDests, w \in 1..MaxFloodWait : RLSetFloodWait(c, w)
    \/ \E c \in RLDests : RLBan(c)
    \/ \E c \in RLDests : RLUnban(c)

SpecBan == Init /\ [][NextBan]_vars

(***************************************************************************)
(* C26.  While a chat is banned every can_send for it denies, and the      *)
(* chat stays banned until unban_chat is called for it; banning a chat     *)
(* changes the answer can_send gives for no other chat.                    *)
(***************************************************************************)
C26_BanDeniesUntilUnban ==
    [][\A d \in RLDests :
          /\ d \in permanent_bans =>
                /\ RLCanSend(d) => call'.gate = "ban"
                /\ d \notin permanent_bans' => RLUnban(d)
          /\ RLBan(d) =>
                /\ d \in permanent_bans'
                /\ \A c \in RLDests \ {d} : Gate(c)' = Gate(c)]_vars

C26_Witness ==
    /\ call = [op |-> "can_send", chat |-> 1, gate |-> "ban"]
    /\ 1 \in permanent_bans
    /\ ~InFloodWait(1)
    /\ chat_counters[1] = <<>>
    /\ global_counter = <<>>
    /\ 2 \notin permanent_bans
    /\ Gate(2) = "allow"

(***************************************************************************)
(* SpecFlood: two messages for one destination, each send succeeding,      *)
(* raising FloodWait or raising another exception, with time passing.      *)
(***************************************************************************)
NextFlood ==
    \/ Tick
    \/ IngestStart(TaskSource(3), FloodMsgs)
    \/ IngestFetch(TRUE)
    \/ IngestLoop
    \/ \E s \in Positions :
          \/ WorkerLoop(s)
          \/ \E w \in 1..MaxFloodWait : WorkerSendFlood(s, w)
          \/ WorkerSendError(s)
          \/ WorkerRetries(s)

SpecFlood == Init /\ [][NextFlood]_vars

(***************************************************************************)
(* C27.  Every invocation of the send, the first and each retry, comes     *)
(* right after a can_send for the destination that answered allow: a       *)
(* worker enters the send only from the can_send of its loop, and no       *)
(* retry is started while the destination's flood wait is active.          *)
(***************************************************************************)
Retried(s) ==
    /\ s.pc = "backoff"
    /\ ~LastAttempt(s.attempt)
    /\ WorkerRetry(s)

C27_EverySendChecked ==
    [][\A s \in Positions :
          Retried(s) => /\ Gate(TaskDest(s.item.task)) = "allow"
                        /\ ~InFloodWait(TaskDest(s.item.task))]_vars

(***************************************************************************)
(* SpecPause: the pipeline with the control bot's pause and resume         *)
(* (src/main.py:357-399) arriving at any time.  The clock stands.          *)
(***************************************************************************)
\* success = await self.db.pause_all_tasks(): every active row is made
\* inactive.
PauseAllTasks(db_ok) ==
    /\ ~terminated
    /\ tasks' = IF db_ok
                THEN [r \in Rules |-> [tasks[r] EXCEPT !.is_active = FALSE]]
                ELSE tasks
    /\ call' = StoreCall("pause_all_tasks", db_ok)
    /\ UNCHANGED <<now, limiter, last_flood, scen, message_queue, is_running,
                   workers, ing, arrived, stats, mon, terminated, delivered,
                   failed, db_pool, registry,
                   cpu_history, hm>>

\* success = await self.db.resume_all_tasks(): every inactive row is made
\* active and its last_error is cleared.
ResumeAllTasks(db_ok) ==
    /\ ~terminated
    /\ tasks' = IF db_ok
                THEN [r \in Rules |->
                        IF tasks[r].is_active THEN tasks[r]
                        ELSE [tasks[r] EXCEPT !.is_active = TRUE,
                                              !.last_error = NoError]]
                ELSE tasks
    /\ call' = StoreCall("resume_all_tasks", db_ok)
    /\ UNCHANGED <<now, limiter, last_flood, scen, message_queue, is_running,
                   workers, ing, arrived, stats, mon, terminated, delivered,
                   failed, db_pool, registry,
                   cpu_history, hm>>

NextPause ==
    \/ Ingest({1}, MaxMsgs)
    \/ \E s \in Positions : WorkerLoop(s)
    \/ \E db_ok \in BOOLEAN : PauseAllTasks(db_ok)
    \/ \E db_ok \in BOOLEAN : ResumeAllTasks(db_ok)

SpecPause == Init /\ [][NextPause]_vars

(***************************************************************************)
(* C28.  From a _pause_all_tasks that succeeded until the tasks are        *)
(* resumed, no worker forwards a message: no send is invoked and nothing   *)
(* is delivered, the items already queued or held included.                *)
(***************************************************************************)
Paused == call.op = "pause_all_tasks" /\ call.ok

C28_PausedNothingForwarded ==
    [][(Paused /\ Paused')
          => /\ delivered' = delivered
             /\ \A r \in Rules : ~SendInvoked(r)]_vars

(***************************************************************************)
(* SpecOrder: three messages of one source with one rule, so three items   *)
(* for one destination, every send succeeding, with time passing.  The     *)
(* first two always find room in the queue.                                *)
(***************************************************************************)
NextOrder ==
    \/ Tick
    \/ IngestStart(TaskSource(3), OrderMsgs)
    \/ IngestFetch(TRUE)
    \/ IngestLoop
    \/ \E s \in Positions : WorkerLoop(s)

SpecOrder == Init /\ [][NextOrder]_vars

\* The pairs of items for one destination, the first accepted earlier.
OrderItems == [msg : 1..OrderMsgs, task : {3}]
InOrder ==
    {p \in OrderItems \X OrderItems :
        /\ p[1].msg < p[2].msg
        /\ TaskDest(p[1].task) = TaskDest(p[2].task)}

(***************************************************************************)
(* C29.  The order of delivery to one destination is best effort only:     *)
(* an item B accepted after an item A for the same destination can be      *)
(* sent before A.  When that happens A is not lost: at the send of B it    *)
(* is held by another worker or waits in the queue, where only a requeue   *)
(* after a denied can_send can have put it behind B (the state of the      *)
(* witness).                                                               *)
(***************************************************************************)
C29_OrderOnlyBestEffort ==
    [][\A p \in InOrder :
          (~Sent(p[2]) /\ Sent(p[2])' /\ ~Sent(p[1]))
              => /\ Queued(p[1]) \/ Held(p[1])
                 /\ (Queued(p[1]) \/ Held(p[1]))']_vars

C29_Witness ==
    \E p \in InOrder :
        /\ Sent(p[2])
        /\ ~Sent(p[1])
        /\ Queued(p[1])
        /\ ~Held(p[1])

(***************************************************************************)
(* SpecDrain: five messages of the source with one rule (five items for    *)
(* one destination), every send succeeding, with time passing and the      *)
(* resource monitor running.  These are the runs up to the first requeue:  *)
(* a worker whose can_send was denied is still in its sleep(1).            *)
(***************************************************************************)
NextDrain ==
    \/ Tick
    \/ Ingest({TaskSource(3)}, DrainMsgs)
    \/ \E s \in Positions :
          \/ WorkerGet(s)
          \/ WorkerCheck(s)
          \/ WorkerSendOk(s)
          \/ WorkerTimeout(s)
    \/ Monitor

SpecDrain == Init /\ [][NextDrain]_vars

(***************************************************************************)
(* C30.  During the drain wait of _graceful_restart the workers keep       *)
(* consuming the queue: while an item the restart found in the queue is    *)
(* still there and can_send allows its destination, a worker is still in   *)
(* its loop to take it.                                                    *)
(***************************************************************************)
C30_DrainKeepsConsuming ==
    (/\ mon.pc = "drain"
     /\ \E i \in 1..Len(mon.backlog) :
           /\ Queued(mon.backlog[i])
           /\ Gate(TaskDest(mon.backlog[i].task)) = "allow")
        => \E s \in Positions : s.pc # "done"

(***************************************************************************)
(* C31.  After the running flag is cleared every worker leaves its loop    *)
(* on its own, without being cancelled: an idle worker on an empty queue   *)
(* can take its dequeue timeout and ends with it, and a worker that holds  *)
(* an item (one waiting to put a denied item back included) ends with the  *)
(* step that finishes the handling of that item; no worker goes back to    *)
(* waiting for the queue.                                                  *)
(***************************************************************************)
\* The steps with which a worker is back at the top of its loop.
BackAtTop(s) ==
    \/ WorkerTimeout(s)
    \/ WorkerRequeue(s)
    \/ WorkerSendOk(s)
    \/ WorkerNotified(s)
    \/ WorkerErrSleep(s)

FloodSleepCap == MaxFloodWait - 1

\* The worker that made the step from s is asleep until wake.
SleepsUntil(s, wake) ==
    \E t \in BagToSet(workers') :
        /\ t = [W("floodsleep", s.item, s.attempt) EXCEPT !.wake = wake]
        /\ CopiesIn(t, workers') > CopiesIn(t, workers)

C32_FloodSleepCapped ==
    [][\A s \in Positions : \A w \in 1..MaxFloodWait :
          WorkerSendFlood(s, w) =>
             /\ flood_wait_until'[TaskDest(s.item.task)] = now + w
             /\ \E wake \in 0..(now + FloodSleepCap) : SleepsUntil(s, wake)]_vars

(***************************************************************************)
(* SpecMonitor: the resource monitor with the CPU readings of              *)
(* ResourceMonitor (src/utils.py:72-201).  get_cpu_usage is called for the *)
(* status report (src/main.py:332) and keeps its readings in cpu_history;  *)
(* the readings of the model are all younger than two minutes.             *)
(***************************************************************************)
\* self.memory_critical_threshold = 450.0 (src/utils.py:88)
memory_critical_threshold == 450
\* self.cpu_critical_threshold = 90.0 (src/utils.py:90)
cpu_critical_threshold == 90
\* The readings of cpu_percent, in percent: below and above the critical
\* level.
CpuReadings == {50, 95}

RECURSIVE SumOf(_)
SumOf(values) ==
    IF values = <<>> THEN 0 ELSE Head(values) + SumOf(Tail(values))

\* deque(maxlen=...).append: the oldest reading leaves a full history
\* (src/utils.py:77, 109-112)
get_cpu_usage(cpu_percent) ==
    /\ ~terminated
    /\ cpu_history' = Append(IF Len(cpu_history) = CpuSamples
                             THEN Tail(cpu_history) ELSE cpu_history,
                             cpu_percent)
    /\ UNCHANGED <<now, limiter, direct, message_queue, is_running, workers,
                   ing, arrived, tasks, stats, mon, terminated, delivered,
                   failed, db_pool, registry, hm>>

\* get_average_cpu(minutes=2) > self.cpu_critical_threshold, the average
\* being sum / len and 0.0 for an empty history (src/utils.py:170-181,
\* 193-196); the division is cleared to keep the comparison exact.
is_cpu_critical ==
    /\ cpu_history # <<>>
    /\ SumOf(cpu_history) > cpu_critical_threshold * Len(cpu_history)

\* current_memory > self.memory_critical_threshold (src/utils.py:183-186)
is_memory_critical(current_memory) ==
    current_memory > memory_critical_threshold

NextMonitor ==
    \/ \E c \in CpuReadings : get_cpu_usage(c)
    \/ Ingest({1}, MaxMsgs)
    \/ Monitor

SpecMonitor == Init /\ [][NextMonitor]_vars

(***************************************************************************)
(* C33.  At a round of the monitor the graceful restart is started when    *)
(* either metric is at its critical level, memory above the critical       *)
(* memory threshold or CPU above the critical CPU threshold, and it is     *)
(* not started when neither is.                                            *)
(***************************************************************************)
C33_EitherMetricStartsRestart ==
    [][\A m \in MemoryReadings :
          MonSample(m) =>
             (mon'.pc = "notify" <=> (is_memory_critical(m) \/ is_cpu_critical))]_vars

(***************************************************************************)
(* C34.  The worker pool never deadlocks on the bounded queue: in no       *)
(* reachable state is every worker blocked in the put of a denied item     *)
(* on a full queue, so at any time one worker at least can still take      *)
(* from the queue.                                                         *)
(***************************************************************************)
\* The worker waits in "await self.message_queue.put(queue_item)".
BlockedInPut(s) == s.pc = "requeue" /\ ~CanPut(message_queue)

C34_NoPutDeadlock == \E s \in Positions : ~BlockedInPut(s)

(***************************************************************************)
(* C35.  Conservation of the delivery items: as long as no task has been   *)
(* cancelled, the items the handler has put into the queue are the items   *)
(* sent (stats messages_forwarded), the items failed (the workers'         *)
(* increments of stats errors), the items in the queue and the items the   *)
(* workers hold; no item is counted twice and none disappears.             *)
(***************************************************************************)
\* The items the workers hold.
HeldCount ==
    BagCardinality([s \in {t \in Positions : t.item # NoItem}
                       |-> CopiesIn(s, workers)])

\* The right-hand side of the balance.
Accounted ==
    stats.messages_forwarded + stats.errors + Len(message_queue) + HeldCount

\* The places an item is counted in.
CountedTimes(it) ==
    CopiesIn(it, delivered) + CopiesIn(it, failed) + QueuedTimes(it)
        + Holders(it)

NoneCancelled == CopiesIn(Cancelled, workers) = 0

BaseLimits == 1..MaxBase

\* base_limit = self.chat_limit; ...; return ...: the call and its answer
AskLimitOf(base_limit, chat_id) ==
    /\ call' = [op |-> "limit", chat |-> chat_id, gate |-> "none",
                base |-> base_limit,
                limit |-> AdaptiveLimit(base_limit, RateOf(chat_id),
                                        error_counts[chat_id])]
    /\ UNCHANGED <<now, limiter, last_flood, scen, pipeline, registry, hm>>

NextBase == \E b \in BaseLimits : \E c \in AskDests : AskLimitOf(b, c)

SpecBase == InitAdaptive /\ [][NextBase]_vars

ErrChat == TaskDest(1)
\* No error yet, the last count of the 60% level, the first of the 30% level.
ErrorStarts == {0, MaxErrors - 1, MaxErrors}

InitErrors ==
    /\ now = 0
    /\ global_counter = <<>>
    /\ chat_counters = [c \in Dests |-> <<>>]
    /\ flood_wait_until = [c \in Dests |-> NoWait]
    /\ permanent_bans = {}
    /\ \E e \in ErrorStarts :
          /\ error_counts = [c \in Dests |-> IF c = ErrChat THEN e ELSE 0]
          /\ \E r \in (IF e = 0 THEN {NoRate, RateUnit} ELSE RateGrid) :
                success_rates = [c \in Dests |-> IF c = ErrChat THEN r
                                                 ELSE NoRate]
    /\ call = NoCall
    /\ last_flood = [c \in Dests |-> NoWait]
    /\ scen = NoScen
    /\ message_queue = <<>>
    /\ is_running = TRUE
    /\ workers = Copies(Idle, NumWorkers)
    /\ ing = IngIdle
    /\ arrived = 0
    /\ tasks = [r \in Rules |->
                   [is_active |-> TRUE, messages_forwarded |-> 0,
                    last_error |-> NoError]]
    /\ stats = [messages_forwarded |-> 0, errors |-> 0]
    /\ mon = [pc |-> "sample", memory |-> 0, wait_time |-> 0,
              backlog |-> <<>>]
    /\ terminated = FALSE
    /\ delivered = EmptyBag
    /\ failed = EmptyBag
    /\ db_pool = "open"
    /\ cpu_history = <<>>
    /\ table = RuleRows
    /\ next_id = Cardinality(Rules) + 1
    /\ active_tasks = CacheOf(RuleRows)
    /\ hm = NoHandle

\* record_message(chat_id, success=False)
RLRecordFailure(chat_id) ==
    /\ Len(global_counter) <= global_limit
    /\ error_counts[chat_id] <= MaxErrors
    /\ record_message(chat_id, FALSE)
    /\ call' = [op |-> "record", chat |-> chat_id, gate |-> "none"]
    /\ UNCHANGED <<now, flood_wait_until, permanent_bans, last_flood, scen,
                   pipeline, registry, hm>>

\* reset_chat_stats without the error count: only the window and the
\* success rate are deleted.
reset_keeps_errors(chat_id) ==
    /\ chat_counters' = [chat_counters EXCEPT ![chat_id] = <<>>]
    /\ success_rates' = [success_rates EXCEPT ![chat_id] = NoRate]
    /\ UNCHANGED error_counts

\* del self.chat_counters[chat_id]; del self.success_rates[chat_id];
\* del self.error_counts[chat_id]
reset_chat_stats(chat_id) ==
    /\ chat_counters' = [chat_counters EXCEPT ![chat_id] = <<>>]
    /\ success_rates' = [success_rates EXCEPT ![chat_id] = NoRate]
    /\ error_counts' = [error_counts EXCEPT ![chat_id] = 0]

RLReset(chat_id) ==
    /\ reset_chat_stats(chat_id)
    /\ call' = [op |-> "reset", chat |-> chat_id, gate |-> "none"]
    /\ UNCHANGED <<now, global_counter, flood_wait_until, permanent_bans,
                   last_flood, scen, pipeline, registry, hm>>

NextErrors ==
    \/ Tick
    \/ RLCanSend(ErrChat)
    \/ RLRecord(ErrChat)
    \/ RLRecordFailure(ErrChat)
    \/ \E w \in 1..MaxFloodWait : RLSetFloodWait(ErrChat, w)
    \/ RLBan(ErrChat)
    \/ RLUnban(ErrChat)
    \/ RLReset(ErrChat)

SpecErrors == InitErrors /\ [][NextErrors]_vars

(***************************************************************************)
(* C37.  error_counts[d] is never decreased by can_send, record_message,   *)
(* set_flood_wait, ban_chat_permanently or unban_chat; so once it is       *)
(* above 10 the adaptive limit of d stays at the 30% level (9 for the      *)
(* base limit 30) through any later successful sends, and only             *)
(* reset_chat_stats(d) brings the base limit back.                         *)
(***************************************************************************)
\* One of the calls the claim names, for chat d.
LimiterCall(d) ==
    \/ RLCanSend(d)
    \/ RLRecord(d)
    \/ RLRecordFailure(d)
    \/ \E w \in 1..MaxFloodWait : RLSetFloodWait(d, w)
    \/ RLBan(d)
    \/ RLUnban(d)

C37_ErrorCountOnlyReset ==
    [][/\ LimiterCall(ErrChat) =>
             error_counts'[ErrChat] >= error_counts[ErrChat]
       /\ (error_counts[ErrChat] > 10 /\ ~RLReset(ErrChat)) =>
             DeployedLimit(ErrChat)' = (DeployedChatLimit * 3) \div 10
       /\ RLReset(ErrChat) => DeployedLimit(ErrChat)' = DeployedChatLimit]_vars

\* More than 10 errors, successful sends have brought the success rate
\* back above 0.8, and the limit asked for is still the reduced one.
C37_Witness ==
    /\ error_counts[ErrChat] > 10
    /\ call.op = "record"
    /\ RateOf(ErrChat) > 800
    /\ Len(chat_counters[ErrChat]) > 1
    /\ DeployedLimit(ErrChat) = (DeployedChatLimit * 3) \div 10

(***************************************************************************)
(* C38.  While the flood-wait cooldown of a destination is active its      *)
(* deadline flood_wait_until[d] never moves earlier: a second flood error  *)
(* for d, reported by another worker with a shorter wait, does not         *)
(* shorten the cooldown already installed.                                 *)
(***************************************************************************)
C38_CooldownNeverShortened ==
    [][\A d \in Dests :
          InFloodWait(d) => flood_wait_until'[d] >= flood_wait_until[d]]_vars

(***************************************************************************)
(* SpecHandle: TelegramUserbot.handle_new_message (src/userbot.py:74-87)   *)
(* for a message of source 1, with add_forwarding_task, delete_task and    *)
(* load_tasks running between its awaits.  The operations change rules of  *)
(* the other source only, so the rules that match the message stay in the  *)
(* store and in the cache, active, all the time.  The loop is              *)
(*     for task_id, task in self.active_tasks.items():                     *)
(* and a dict iterator raises RuntimeError at its next step when the size  *)
(* of the dict is not the size it was made with; when the keys have        *)
(* changed and the size has not, what the iterator still yields depends    *)
(* on where the new key was stored: it yields a key not yet yielded or     *)
(* ends.  The await of forward_message lasts as long as the send, its      *)
(* flood-wait sleeps and its retries take (src/userbot.py:89-119).         *)
(***************************************************************************)
HandledSource == TaskSource(1)

\* The dict the loop iterates.
IterDict == IF hm.detached THEN hm.old ELSE active_tasks

\* if task["source_chat"] == source_chat and task["status"] == "active"
MatchingIn(cache, source_chat) ==
    {id \in DOMAIN cache : /\ cache[id].source_chat = source_chat
                           /\ cache[id].status = "active"}

\* The loop has ended; with raised, in the except clause.
Ended(h, raised) ==
    [h EXCEPT !.pc = "done", !.current = 0, !.raised = raised]

\* The loop runs on to its next await: where it can stand then.
Advanced(h, cache) ==
    IF Cardinality(DOMAIN cache) # h.size
    THEN {Ended(h, TRUE)}
    ELSE {[h EXCEPT !.pc = "forward", !.current = id, !.visited = @ \cup {id},
                    !.called = Append(@, id)] :
             id \in MatchingIn(cache, h.source) \ h.visited}
         \cup (IF MatchingIn(cache, h.source) \ h.visited = {}
                  \/ DOMAIN cache # h.keys
               THEN {Ended(h, FALSE)} ELSE {})

\* A message of source_chat arrives: the iterator is made and the loop
\* runs to its first await.
HandleStart(source_chat) ==
    /\ hm.pc = "idle"
    /\ hm' \in Advanced([NoHandle EXCEPT
                            !.source = source_chat,
                            !.start = MatchingIn(active_tasks, source_chat),
                            !.size = Cardinality(DOMAIN active_tasks),
                            !.keys = DOMAIN active_tasks],
                        active_tasks)
    /\ UNCHANGED <<now, limiter, direct, pipeline, registry>>

\* await self.forward_message(message, task) returns and the loop goes on.
HandleResume ==
    /\ hm.pc = "forward"
    /\ hm' \in Advanced(hm, IterDict)
    /\ UNCHANGED <<now, limiter, direct, pipeline, registry>>

NextHandle ==
    \/ HandleStart(HandledSource)
    \/ HandleResume
    \/ \E read_ok \in BOOLEAN : load_tasks(read_ok)
    \/ \E source_chat \in StoreSources \ {HandledSource},
          dest_chat \in StoreDests, db_ok \in BOOLEAN :
             add_forwarding_task(source_chat, dest_chat, db_ok)
    \/ \E row \in table, db_ok \in BOOLEAN :
          row.source_id # HandledSource /\ delete_task(row.id, db_ok)

SpecHandle == Init /\ [][NextHandle]_vars

(***************************************************************************)
(* C39.  In handle_new_message a message of source s is forwarded once to  *)
(* every rule that is active for s in the cache when the handling starts,  *)
(* also when add_forwarding_task, delete_task or load_tasks change         *)
(* active_tasks while one of the forwards is awaited: a concurrent change  *)
(* of the cache never makes the remaining matching rules be skipped.       *)
(***************************************************************************)
CalledTimes(id) ==
    Cardinality({i \in 1..Len(hm.called) : hm.called[i] = id})

C39_EveryMatchingRuleForwarded ==
    hm.pc = "done" => \A id \in hm.start : CalledTimes(id) = 1

====
